---- MODULE Spec2Model ----
(***************************************************************************)
(* Cold VM launcher (src/source/Cold.cpp): the parent process of main(),   *)
(* ColdVM::boot(), the two child processes it forks (QEMU, websockify),    *)
(* ColdVM::cleanup() and the SIGINT/SIGTERM handler, as a state machine.   *)
(*                                                                         *)
(* One action is one step of the parent between two points at which a      *)
(* signal can be delivered, or one step of the environment (a child        *)
(* exiting, a signal arriving).                                            *)
(***************************************************************************)
EXTENDS Integers, Sequences, FiniteSets, TLC

\* ------------------------------------------------------------------ bounds

\* Number of command-line arguments main() iterates over (argc - 1).
MaxArgs == 1

\* Number of entries a scanned directory holds when the program starts.
MaxDirFiles == 1

\* --------------------------------------------------------- program constants

\* ColdVM::ColdVM: the "not running" value of qemuPid and websockifyPid; also
\* what fork() returns on failure.
NoPid == -1

cpuCores == 4

ramGB == 4

cpuModel == "host"

enableAudio == TRUE

diskDir == "./devices/disk"

romPath == "./devices/rom"

firmwarePath == "./boot/firmware/OVMF_CODE.fd"

varsPath == "./boot/firmware/OVMF_VARS.fd"

noVNCPath == "./libraries/noVNC"

bridgeInterface == "virbr0"

\* The two signals main() installs signalHandler for.
Signals == {"SIGINT", "SIGTERM"}

\* The children the parent forks, in the order boot() forks them.
Roles == {"qemu", "websockify"}

\* The pid fork() gives each child (any two distinct positive numbers).
ChildPid(role) == IF role = "qemu" THEN 1 ELSE 2

\* The options main() recognises, and one it does not.
Flags == {"--no-vnc", "--no-bridge", "--no-camera", "--no-mic", "--help", "--other"}

\* ------------------------------------------------------------- file names

\* A file name is the sequence of its dot-separated pieces, each piece after
\* the first keeping its dot: disk.qcow2 is <<"disk", ".qcow2">>.  A path is
\* the directory followed by the pieces of the name.
DefaultDiskName == <<"disk", ".qcow2">>

DiskDirNames ==
    {DefaultDiskName, <<"win", ".img">>, <<"notes", ".txt">>, <<"old", ".img", ".vdi">>}

RomDirNames == {<<"install", ".iso">>}

\* Every path the scans can return, in the order std::string's operator<
\* gives them (byte-wise lexicographic).
PathOrder ==
    << <<diskDir, "disk", ".qcow2">>, <<diskDir, "notes", ".txt">>,
       <<diskDir, "old", ".img", ".vdi">>, <<diskDir, "win", ".img">>,
       <<romPath, "install", ".iso">> >>

PathRank(p) == CHOOSE i \in 1..Len(PathOrder) : PathOrder[i] = p

PathLess(p, q) == PathRank(p) < PathRank(q)

\* fs::path::extension(): the last piece when the name has a dot, else empty.
extension(name) == IF Len(name) >= 2 THEN name[Len(name)] ELSE ""

\* std::sort over a vector of paths: repeatedly the least remaining element.
RECURSIVE SortPaths(_)
SortPaths(S) ==
    IF S = {} THEN << >>
    ELSE LET least == CHOOSE p \in S : \A q \in S \ {p} : PathLess(p, q)
         IN  <<least>> \o SortPaths(S \ {least})

DiskExtensions == {".qcow2", ".img", ".raw", ".vdi", ".vmdk"}

\* ColdVM::findAllDisks over the directory contents `dir`.
findAllDisks(dir) ==
    SortPaths({<<diskDir>> \o n : n \in {m \in dir : extension(m) \in DiskExtensions}})

\* ColdVM::findAllISOs over the directory contents `dir`.
findAllISOs(dir) ==
    SortPaths({<<romPath>> \o n : n \in {m \in dir : extension(m) = ".iso"}})

\* ----------------------------------------------------------------- state

VARIABLES
    pc,              \* where the innermost frame of the parent is
    alive,           \* the parent process has not exited
    exitCode,        \* its exit status, once it has exited
    handlers,        \* signalHandler frames on the stack, each blocking its own signal
    argi,            \* number of arguments main() has consumed
    useVNC, useBridge, enableCamera, enableMicrophone,
    qemuPid, websockifyPid,
    forkRet,         \* the local `pid` of startQEMU / startWebsockify
    diskFiles, isoFiles,
    cmd,             \* the argument vector buildQEMUCommand returned
    diskDirFiles, romDirFiles,   \* contents of ./devices/disk and ./devices/rom
    host,            \* what the probes of the machine answer
    child,           \* state of each child process
    sys              \* the system calls and signals so far, in order

vars == <<pc, alive, exitCode, handlers, argi, useVNC, useBridge, enableCamera,
          enableMicrophone, qemuPid, websockifyPid, forkRet, diskFiles, isoFiles,
          cmd, diskDirFiles, romDirFiles, host, child, sys>>

config == <<useVNC, useBridge, enableCamera, enableMicrophone>>

media == <<diskFiles, isoFiles, cmd>>

pids == <<qemuPid, websockifyPid, forkRet>>

files == <<diskDirFiles, romDirFiles, host>>

Hosts ==
    [qemu : BOOLEAN, websockify : BOOLEAN, firmware : BOOLEAN,
     noVNC : BOOLEAN, bridge : BOOLEAN, camera : BOOLEAN]

DirContents(names) == {d \in SUBSET names : Cardinality(d) <= MaxDirFiles}

\* main() up to `globalVM = &vm`: handlers installed, ColdVM constructed.
Init ==
    /\ pc = "parse_args"
    /\ alive = TRUE
    /\ exitCode = 0
    /\ handlers = 0
    /\ argi = 0
    /\ useVNC = TRUE
    /\ useBridge = TRUE
    /\ enableCamera = TRUE
    /\ enableMicrophone = TRUE
    /\ qemuPid = NoPid
    /\ websockifyPid = NoPid
    /\ forkRet = NoPid
    /\ diskFiles = << >>
    /\ isoFiles = << >>
    /\ cmd = << >>
    /\ diskDirFiles \in DirContents(DiskDirNames)
    /\ romDirFiles \in DirContents(RomDirNames)
    /\ host \in Hosts
    /\ child = [r \in Roles |-> "NotStarted"]
    /\ sys = << >>

\* The frame that is running: the handler once a signal was delivered.
ctx == IF handlers = 0 THEN "main" ELSE "handler"

Event(op, who, ok) == [op |-> op, who |-> who, ok |-> ok, ctx |-> ctx, at |-> pc]

Log(op, who, ok) == sys' = Append(sys, Event(op, who, ok))

\* ------------------------------------------------------- buildQEMUCommand

\* std::to_string for the one-digit numbers the configuration holds.
to_string(n) == <<"0", "1", "2", "3", "4", "5", "6", "7", "8", "9">>[n + 1]

\* std::string::find(needle) != npos, where needle is a dot-led piece.
contains(path, needle) == \E i \in 1..Len(path) : path[i] = needle

\* The format buildQEMUCommand gives a disk path (the if / else-if chain).
diskFormat(diskPath) ==
    IF contains(diskPath, ".img") \/ contains(diskPath, ".raw") THEN "raw"
    ELSE IF contains(diskPath, ".vdi") THEN "vdi"
    ELSE IF contains(diskPath, ".vmdk") THEN "vmdk"
    ELSE "qcow2"

\* The ids the lsusb probe extracts from the first matching line.
cameraVendor == "046d"

cameraProduct == "0825"

displayArgs ==
    IF useVNC THEN << <<"none">>, <<"-vnc">>, <<":1">> >> ELSE << <<"gtk,gl=on">> >>

\* createVarsFile() returns true on each of its paths.
createVarsFile == TRUE

firmwareArgs ==
    IF host.firmware
    THEN << <<"-drive">>, <<"if=pflash,format=raw,readonly=on,file=", firmwarePath>> >>
         \o (IF createVarsFile
             THEN << <<"-drive">>, <<"if=pflash,format=raw,file=", varsPath>> >>
             ELSE << >>)
    ELSE << >>

RECURSIVE diskArgs(_)
diskArgs(disks) ==
    IF disks = << >> THEN << >>
    ELSE << <<"-drive">>,
            <<"file=">> \o Head(disks)
               \o <<",format=", diskFormat(Head(disks)), ",if=virtio,cache=writeback">> >>
         \o diskArgs(Tail(disks))

\* The ISO loop from index i on (i counts from 0, as in the code).
RECURSIVE isoArgs(_, _)
isoArgs(isos, i) ==
    IF isos = << >> THEN << >>
    ELSE (IF i = 0
          THEN << <<"-cdrom">>, Head(isos) >>
          ELSE << <<"-drive">>,
                  <<"file=">> \o Head(isos)
                     \o <<",media=cdrom,readonly=on,if=ide,index=", to_string(i)>> >>)
         \o isoArgs(Tail(isos), i + 1)

audioArgs ==
    IF enableAudio
    THEN << <<"-audiodev">>, <<"alsa,id=audio0">>, <<"-device">>, <<"intel-hda">>,
            <<"-device">>,
            IF enableMicrophone THEN <<"hda-duplex,audiodev=audio0">>
                                ELSE <<"hda-output,audiodev=audio0">> >>
    ELSE << >>

networkArgs ==
    IF useBridge
    THEN << <<"-netdev">>, <<"bridge,id=net0,br=", bridgeInterface>>,
            <<"-device">>, <<"virtio-net-pci,netdev=net0,mac=52:54:00:12:34:56">> >>
    ELSE << <<"-netdev">>, <<"user,id=net0">>,
            <<"-device">>, <<"virtio-net-pci,netdev=net0">> >>

cameraArgs ==
    IF enableCamera /\ host.camera
    THEN << <<"-device">>,
            <<"usb-host,vendorid=0x", cameraVendor, ",productid=0x", cameraProduct>> >>
    ELSE << >>

\* bootOrderArgs with the two drive letters swapped.
MutBootOrderArgs ==
    IF isoFiles # << >> THEN << <<"-boot">>, <<"order=", "c", "d", ",menu=on">> >>
                        ELSE << <<"-boot">>, <<"order=", "c", ",menu=on">> >>

\* The -boot value: the literal "order=dc,menu=on" or "order=c,menu=on", its
\* drive letters kept as separate pieces.
bootOrderArgs ==
    IF isoFiles # << >> THEN << <<"-boot">>, <<"order=", "d", "c", ",menu=on">> >>
                        ELSE << <<"-boot">>, <<"order=", "c", ",menu=on">> >>

buildQEMUCommand ==
    << <<"qemu-system-x86_64">>, <<"-enable-kvm">>,
       <<"-cpu">>, <<cpuModel>>, <<"-smp">>, <<to_string(cpuCores)>>,
       <<"-m">>, <<to_string(ramGB), "G">>,
       <<"-vga">>, <<"virtio">>, <<"-display">> >>
    \o displayArgs
    \o firmwareArgs
    \o diskArgs(diskFiles)
    \o isoArgs(isoFiles, 0)
    \o audioArgs
    \o networkArgs
    \o << <<"-device">>, <<"qemu-xhci,id=xhci">>, <<"-device">>, <<"usb-tablet">> >>
    \o cameraArgs
    \o << <<"-rtc">>, <<"base=localtime,clock=host,driftfix=slew">> >>
    \o bootOrderArgs
    \o << <<"-machine">>, <<"type=q35,accel=kvm">> >>

\* ------------------------------------------------------------------ main

\* What one argument does to the configuration (the if / else-if chain of main).
ApplyFlag(arg) ==
    /\ useVNC' = IF arg = "--no-vnc" THEN FALSE ELSE useVNC
    /\ useBridge' = IF arg = "--no-bridge" THEN FALSE ELSE useBridge
    /\ enableCamera' = IF arg = "--no-camera" THEN FALSE ELSE enableCamera
    /\ enableMicrophone' = IF arg = "--no-mic" THEN FALSE ELSE enableMicrophone

\* One iteration of main's argument loop; --help prints the usage and returns 0.
ParseArg ==
    /\ alive /\ pc = "parse_args" /\ argi < MaxArgs
    /\ \E arg \in Flags :
          /\ ApplyFlag(arg)
          /\ IF arg = "--help"
             THEN /\ alive' = FALSE
                  /\ exitCode' = 0
                  /\ pc' = "returned"
                  /\ Log("exit", "help", TRUE)
             ELSE /\ UNCHANGED <<alive, exitCode, pc, sys>>
    /\ argi' = argi + 1
    /\ UNCHANGED <<handlers, pids, media, files, child>>

\* The loop ends (i = argc) and main calls vm.boot().
ArgsDone ==
    /\ alive /\ pc = "parse_args"
    /\ pc' = "check_qemu"
    /\ UNCHANGED <<alive, exitCode, handlers, argi, config, pids, media, files, child, sys>>

\* boot() returned false: main prints the failure and returns 1.
MainFailed ==
    /\ alive /\ pc = "boot_failed"
    /\ alive' = FALSE
    /\ exitCode' = 1
    /\ pc' = "returned"
    /\ Log("exit", "main", TRUE)
    /\ UNCHANGED <<handlers, argi, config, pids, media, files, child>>

\* Idle with a restart policy: a QEMU that has exited is forked again.
MutIdleRestart ==
    /\ alive /\ pc = "idle"
    /\ pc' = IF child["qemu"] = "Exited" THEN "fork_qemu" ELSE pc
    /\ UNCHANGED <<alive, exitCode, handlers, argi, config, pids, media, files, child, sys>>

\* Idle with liveness polling: a child that has exited starts the teardown.
MutIdlePolling ==
    /\ alive /\ pc = "idle"
    /\ pc' = IF \E r \in {"qemu", "websockify"} : child[r] = "Exited"
             THEN "cleanup_qemu" ELSE pc
    /\ UNCHANGED <<alive, exitCode, handlers, argi, config, pids, media, files, child, sys>>

\* boot() returned true: main sleeps in its loop, one second at a time.
Idle ==
    /\ alive /\ pc = "idle"
    /\ UNCHANGED vars

\* ------------------------------------------------------------------ boot

\* checkCommand(): `which` finds the tool.
checkCommand(tool) == host[tool]

\* checkFile(): warns or reports, and changes nothing.
checkFile(what) == host[what]

\* BootCheckQEMU going on without QEMU.
MutBootCheckQEMU ==
    /\ alive /\ pc = "check_qemu"
    /\ pc' = "check_vnc"
    /\ UNCHANGED <<alive, exitCode, handlers, argi, config, pids, media, files, child, sys>>

\* boot() from its start to the QEMU requirement check.
BootCheckQEMU ==
    /\ alive /\ pc = "check_qemu"
    /\ pc' = IF checkCommand("qemu") THEN "check_vnc" ELSE "boot_failed"
    /\ UNCHANGED <<alive, exitCode, handlers, argi, config, pids, media, files, child, sys>>

\* The firmware report and the VNC requirement check.
BootCheckVNC ==
    /\ alive /\ pc = "check_vnc"
    /\ pc' = IF useVNC /\ ~checkCommand("websockify") THEN "boot_failed" ELSE "check_bridge"
    /\ UNCHANGED <<alive, exitCode, handlers, argi, config, pids, media, files, child, sys>>

\* checkBridgeInterface without the fallback assignment.
MutCheckBridgeInterface ==
    useBridge' = useBridge

\* checkBridgeInterface(): falls back to user networking when the bridge is absent.
checkBridgeInterface ==
    useBridge' = IF host.bridge THEN useBridge ELSE FALSE

BootCheckBridge ==
    /\ alive /\ pc = "check_bridge"
    /\ IF useBridge THEN checkBridgeInterface ELSE UNCHANGED useBridge
    /\ pc' = "scan"
    /\ UNCHANGED <<alive, exitCode, handlers, argi, useVNC, enableCamera,
                   enableMicrophone, pids, media, files, child, sys>>

\* diskFiles = findAllDisks(); isoFiles = findAllISOs();
BootScan ==
    /\ alive /\ pc = "scan"
    /\ diskFiles' = findAllDisks(diskDirFiles)
    /\ isoFiles' = findAllISOs(romDirFiles)
    /\ pc' = "default_disk"
    /\ UNCHANGED <<alive, exitCode, handlers, argi, config, pids, cmd, files, child, sys>>

\* createDefaultDisk running qemu-img without looking for disk.qcow2 first.
MutCreateDefaultDisk(dir, created) ==
    IF created THEN [dir |-> dir \cup {DefaultDiskName}, ret |-> TRUE]
               ELSE [dir |-> dir, ret |-> FALSE]

\* createDefaultDisk(): `created` is whether qemu-img succeeds when it is run.
\* Gives the directory afterwards and the value returned.
createDefaultDisk(dir, created) ==
    IF DefaultDiskName \notin dir
    THEN IF created THEN [dir |-> dir \cup {DefaultDiskName}, ret |-> TRUE]
                    ELSE [dir |-> dir, ret |-> FALSE]
    ELSE [dir |-> dir, ret |-> TRUE]

\* if (diskFiles.empty()) { if (createDefaultDisk()) diskFiles = findAllDisks(); }
BootDefaultDisk ==
    /\ alive /\ pc = "default_disk"
    /\ IF diskFiles = << >>
       THEN \E created \in BOOLEAN :
               LET r == createDefaultDisk(diskDirFiles, created)
               IN  /\ diskDirFiles' = r.dir
                   /\ diskFiles' = IF r.ret THEN findAllDisks(r.dir) ELSE diskFiles
                   /\ IF DefaultDiskName \notin diskDirFiles
                      THEN Log("create", "disk", created)
                      ELSE UNCHANGED sys
       ELSE UNCHANGED <<diskDirFiles, diskFiles, sys>>
    /\ pc' = "media_check"
    /\ UNCHANGED <<alive, exitCode, handlers, argi, config, pids, isoFiles, cmd,
                   romDirFiles, host, child>>

\* The media test with the ISO condition inverted.
MutNoBootableMedia == diskFiles = << >> /\ isoFiles # << >>

\* The launch is refused when neither a disk nor an ISO was found.
noBootableMedia == diskFiles = << >> /\ isoFiles = << >>

BootMediaCheck ==
    /\ alive /\ pc = "media_check"
    /\ pc' = IF noBootableMedia THEN "boot_failed" ELSE "build_cmd"
    /\ UNCHANGED <<alive, exitCode, handlers, argi, config, pids, media, files, child, sys>>

\* ------------------------------------------------------------- startQEMU

\* StartQEMUBuild that also falls back in the configuration: the camera flag
\* is switched off when the camera is not plugged in.
MutStartQEMUBuild ==
    /\ alive /\ pc = "build_cmd"
    /\ cmd' = buildQEMUCommand
    /\ enableCamera' = (enableCamera /\ host.camera)
    /\ pc' = "fork_qemu"
    /\ UNCHANGED <<alive, exitCode, handlers, argi, useVNC, useBridge, enableMicrophone,
                   pids, diskFiles, isoFiles, files, child, sys>>

\* startQEMU() up to fork(): the command is built and copied into argv.
StartQEMUBuild ==
    /\ alive /\ pc = "build_cmd"
    /\ cmd' = buildQEMUCommand
    /\ pc' = "fork_qemu"
    /\ UNCHANGED <<alive, exitCode, handlers, argi, config, pids, diskFiles, isoFiles,
                   files, child, sys>>

\* pid = fork(): the child exists from here on; a failed fork makes startQEMU
\* and then boot() return false.
StartQEMUFork ==
    /\ alive /\ pc = "fork_qemu"
    /\ \E ok \in BOOLEAN :
          IF ok
          THEN /\ forkRet' = ChildPid("qemu")
               /\ child' = [child EXCEPT !["qemu"] = "Running"]
               /\ Log("fork", "qemu", TRUE)
               /\ pc' = "store_qemu"
          ELSE /\ forkRet' = NoPid
               /\ Log("fork", "qemu", FALSE)
               /\ pc' = "boot_failed"
               /\ UNCHANGED child
    /\ UNCHANGED <<alive, exitCode, handlers, argi, config, qemuPid, websockifyPid,
                   media, files>>

\* qemuPid = pid;
StartQEMUStore ==
    /\ alive /\ pc = "store_qemu"
    /\ qemuPid' = forkRet
    /\ pc' = "sleep_qemu"
    /\ UNCHANGED <<alive, exitCode, handlers, argi, config, websockifyPid, forkRet,
                   media, files, child, sys>>

\* sleep(3); return true;  and boot() goes on to the display.
StartQEMUSleep ==
    /\ alive /\ pc = "sleep_qemu"
    /\ Log("sleep", "qemu", TRUE)
    /\ pc' = "display"
    /\ UNCHANGED <<alive, exitCode, handlers, argi, config, pids, media, files, child>>

\* -------------------------------------------------------- startWebsockify

\* What startWebsockify() does before it forks: "skip" (VNC is off, return
\* true), "refuse" (the noVNC directory is missing, return false) or "fork".
startWebsockifyPre ==
    IF ~useVNC THEN "skip"
    ELSE IF ~host.noVNC THEN "refuse"
    ELSE "fork"

\* BootDisplay without the cleanup() call on a refused start.
MutBootDisplayNoCleanup ==
    /\ alive /\ pc = "display"
    /\ pc' = IF ~useVNC THEN "idle"
             ELSE CASE startWebsockifyPre = "skip" -> "idle"
                    [] startWebsockifyPre = "refuse" -> "boot_failed"
                    [] startWebsockifyPre = "fork" -> "fork_websockify"
    /\ UNCHANGED <<alive, exitCode, handlers, argi, config, pids, media, files, child, sys>>

\* BootDisplay starting websockify whatever the display mode is.
MutBootDisplayAnyMode ==
    /\ alive /\ pc = "display"
    /\ pc' = IF ~host.noVNC THEN "cleanup_qemu" ELSE "fork_websockify"
    /\ UNCHANGED <<alive, exitCode, handlers, argi, config, pids, media, files, child, sys>>

\* if (useVNC) { if (!startWebsockify()) { cleanup(); return false; } ... }
\* else the VM runs with the local display; boot() returns true.
BootDisplay ==
    /\ alive /\ pc = "display"
    /\ pc' = IF ~useVNC THEN "idle"
             ELSE CASE startWebsockifyPre = "skip" -> "idle"
                    [] startWebsockifyPre = "refuse" -> "cleanup_qemu"
                    [] startWebsockifyPre = "fork" -> "fork_websockify"
    /\ UNCHANGED <<alive, exitCode, handlers, argi, config, pids, media, files, child, sys>>

\* pid = fork(): a failed fork makes startWebsockify return false, and boot()
\* calls cleanup().
StartWebsockifyFork ==
    /\ alive /\ pc = "fork_websockify"
    /\ \E ok \in BOOLEAN :
          IF ok
          THEN /\ forkRet' = ChildPid("websockify")
               /\ child' = [child EXCEPT !["websockify"] = "Running"]
               /\ Log("fork", "websockify", TRUE)
               /\ pc' = "store_websockify"
          ELSE /\ forkRet' = NoPid
               /\ Log("fork", "websockify", FALSE)
               /\ pc' = "cleanup_qemu"
               /\ UNCHANGED child
    /\ UNCHANGED <<alive, exitCode, handlers, argi, config, qemuPid, websockifyPid,
                   media, files>>

\* websockifyPid = pid;
StartWebsockifyStore ==
    /\ alive /\ pc = "store_websockify"
    /\ websockifyPid' = forkRet
    /\ pc' = "sleep_websockify"
    /\ UNCHANGED <<alive, exitCode, handlers, argi, config, qemuPid, forkRet,
                   media, files, child, sys>>

\* sleep(2); return true;  boot() prints the address and returns true.
StartWebsockifySleep ==
    /\ alive /\ pc = "sleep_websockify"
    /\ Log("sleep", "websockify", TRUE)
    /\ pc' = "idle"
    /\ UNCHANGED <<alive, exitCode, handlers, argi, config, pids, media, files, child>>

\* --------------------------------------------------------------- cleanup

\* The child a pid designates.
ProcOf(pid) == CHOOSE r \in Roles : ChildPid(r) = pid

\* kill() that sends a signal the child does not act on.
MutKill(pid) ==
    /\ UNCHANGED child
    /\ Log("kill", CHOOSE r \in Roles : ChildPid(r) = pid, TRUE)

\* kill(pid, SIGTERM): a running child starts to stop; the call fails (ESRCH)
\* once the child has been waited for.  A pid of -1 addresses every process
\* the caller may signal.
kill(pid) ==
    IF pid = NoPid
    THEN /\ child' = [r \in Roles |-> IF child[r] = "Running" THEN "Stopping"
                                      ELSE child[r]]
         /\ Log("kill", "all", TRUE)
    ELSE LET r == ProcOf(pid)
         IN  /\ child' = [child EXCEPT ![r] = IF @ = "Running" THEN "Stopping" ELSE @]
             /\ Log("kill", r, child[r] # "Reaped")

\* waitpid(pid, nullptr, 0) can return: the child has exited, or there is no
\* such child any more (ECHILD).  A pid of -1 waits for any child.
waitpidReturns(pid) ==
    IF pid = NoPid
    THEN \/ \E r \in Roles : child[r] = "Exited"
         \/ \A r \in Roles : child[r] \in {"NotStarted", "Reaped"}
    ELSE child[ProcOf(pid)] \in {"Exited", "Reaped"}

waitpid(pid) ==
    IF pid = NoPid
    THEN IF \E r \in Roles : child[r] = "Exited"
         THEN /\ \E r \in Roles : /\ child[r] = "Exited"
                                  /\ child' = [child EXCEPT ![r] = "Reaped"]
              /\ Log("wait", "any", TRUE)
         ELSE /\ UNCHANGED child
              /\ Log("wait", "any", FALSE)
    ELSE LET r == ProcOf(pid)
         IN  /\ child' = [child EXCEPT ![r] = "Reaped"]
             /\ Log("wait", r, child[r] = "Exited")

\* cleanup() without its test of qemuPid against -1.
MutCleanupKillQEMU ==
    /\ alive /\ pc = "cleanup_qemu"
    /\ kill(qemuPid)
    /\ pc' = "cleanup_wait_qemu"
    /\ UNCHANGED <<alive, exitCode, handlers, argi, config, pids, media, files>>

\* if (qemuPid != -1) { kill(qemuPid, SIGTERM); ...
CleanupKillQEMU ==
    /\ alive /\ pc = "cleanup_qemu"
    /\ IF qemuPid # NoPid
       THEN /\ kill(qemuPid)
            /\ pc' = "cleanup_wait_qemu"
       ELSE /\ pc' = "cleanup_websockify"
            /\ UNCHANGED <<child, sys>>
    /\ UNCHANGED <<alive, exitCode, handlers, argi, config, pids, media, files>>

\* ... waitpid(qemuPid, nullptr, 0); }
CleanupWaitQEMU ==
    /\ alive /\ pc = "cleanup_wait_qemu"
    /\ waitpidReturns(qemuPid)
    /\ waitpid(qemuPid)
    /\ pc' = "cleanup_websockify"
    /\ UNCHANGED <<alive, exitCode, handlers, argi, config, pids, media, files>>

\* cleanup() without its test of websockifyPid against -1.
MutCleanupKillWebsockify ==
    /\ alive /\ pc = "cleanup_websockify"
    /\ kill(websockifyPid)
    /\ pc' = "cleanup_wait_websockify"
    /\ UNCHANGED <<alive, exitCode, handlers, argi, config, pids, media, files>>

\* if (websockifyPid != -1) { kill(websockifyPid, SIGTERM); ...
CleanupKillWebsockify ==
    /\ alive /\ pc = "cleanup_websockify"
    /\ IF websockifyPid # NoPid
       THEN /\ kill(websockifyPid)
            /\ pc' = "cleanup_wait_websockify"
       ELSE /\ pc' = "cleanup_done"
            /\ UNCHANGED <<child, sys>>
    /\ UNCHANGED <<alive, exitCode, handlers, argi, config, pids, media, files>>

\* ... waitpid(websockifyPid, nullptr, 0); }
CleanupWaitWebsockify ==
    /\ alive /\ pc = "cleanup_wait_websockify"
    /\ waitpidReturns(websockifyPid)
    /\ waitpid(websockifyPid)
    /\ pc' = "cleanup_done"
    /\ UNCHANGED <<alive, exitCode, handlers, argi, config, pids, media, files>>

\* cleanup() returns to boot(), which returns false.
CleanupReturnToBoot ==
    /\ alive /\ pc = "cleanup_done" /\ ctx = "main"
    /\ pc' = "boot_failed"
    /\ UNCHANGED <<alive, exitCode, handlers, argi, config, pids, media, files, child, sys>>

\* ---------------------------------------------------------- signalHandler

\* cleanup() returns to signalHandler, which calls exit(0).
HandlerExit ==
    /\ alive /\ pc = "cleanup_done" /\ ctx = "handler"
    /\ alive' = FALSE
    /\ exitCode' = 0
    /\ pc' = "returned"
    /\ Log("exit", "handler", TRUE)
    /\ UNCHANGED <<handlers, argi, config, pids, media, files, child>>

\* A SIGINT or SIGTERM is delivered: signalHandler runs on top of whatever the
\* parent was doing (which never resumes, as the handler ends in exit).
\* signal() keeps the delivered signal handlers while its handler runs, so a
\* further delivery needs a signal with no handler on the stack yet; globalVM
\* is set, so the handler calls cleanup().
Signal ==
    /\ alive
    /\ handlers < Cardinality(Signals)
    /\ handlers' = handlers + 1
    /\ Log("signal", "parent", TRUE)
    /\ pc' = "cleanup_qemu"
    /\ UNCHANGED <<alive, exitCode, argi, config, pids, media, files, child>>

\* ---------------------------------------------------------- the children

\* A child process ends: in answer to SIGTERM, because its exec failed, or on
\* its own.
ChildExit ==
    \E r \in Roles :
       /\ child[r] \in {"Running", "Stopping"}
       /\ child' = [child EXCEPT ![r] = "Exited"]
       /\ UNCHANGED <<pc, alive, exitCode, handlers, argi, config, pids, media, files, sys>>

Next ==
    \/ ParseArg
    \/ ArgsDone
    \/ MainFailed
    \/ Idle
    \/ BootCheckQEMU
    \/ BootCheckVNC
    \/ BootCheckBridge
    \/ BootScan
    \/ BootDefaultDisk
    \/ BootMediaCheck
    \/ StartQEMUBuild
    \/ StartQEMUFork
    \/ StartQEMUStore
    \/ StartQEMUSleep
    \/ BootDisplay
    \/ StartWebsockifyFork
    \/ StartWebsockifyStore
    \/ StartWebsockifySleep
    \/ CleanupKillQEMU
    \/ CleanupWaitQEMU
    \/ CleanupKillWebsockify
    \/ CleanupWaitWebsockify
    \/ CleanupReturnToBoot
    \/ HandlerExit
    \/ Signal
    \/ ChildExit

Spec == Init /\ [][Next]_vars

\* A child that was sent SIGTERM ends: the ChildExit step of a stopping child.
SignalledChildExit(r) ==
    /\ child[r] = "Stopping"
    /\ child' = [child EXCEPT ![r] = "Exited"]
    /\ UNCHANGED <<pc, alive, exitCode, handlers, argi, config, pids, media, files, sys>>

\* The steps of cleanup() and of the handler after it: the parent is a running
\* process, so it takes the step it is at (waitpid once it can return).
Teardown ==
    \/ CleanupKillQEMU
    \/ CleanupWaitQEMU
    \/ CleanupKillWebsockify
    \/ CleanupWaitWebsockify
    \/ HandlerExit

\* The machines with both tools installed, on which boot() can reach the idle
\* loop in either display mode; the firmware and the camera, which only change
\* the arguments of the command, are present.
LiveInit ==
    /\ Init
    /\ host.qemu /\ host.websockify /\ host.firmware /\ host.camera

\* Spec on those machines, where the parent keeps running its teardown and
\* every child answers SIGTERM by exiting.
LiveSpec ==
    /\ LiveInit
    /\ [][Next]_vars
    /\ WF_vars(Teardown)
    /\ \A r \in Roles : WF_vars(SignalledChildExit(r))

\* ------------------------------------------------ reading the event record

\* Positions of the events `op` on `who` in sys.
Events(op, who) == {i \in DOMAIN sys : sys[i].op = op /\ sys[i].who = who}

\* fork() has returned a child for this role.
Forked(r) == \E i \in Events("fork", r) : sys[i].ok

\* Any fork() call for this role, successful or not.
ForkTried(r) == Events("fork", r) # {}

\* The process ended in main's `return 1`, in the handler's exit(0), in --help.
ExitedBy(who) == ~alive /\ sys # << >> /\ sys[Len(sys)] = [op |-> "exit", who |-> who,
                     ok |-> TRUE, ctx |-> sys[Len(sys)].ctx, at |-> sys[Len(sys)].at]

\* Neither list holds a path.
NoMedia == diskFiles = << >> /\ isoFiles = << >>

\* Where main is once boot() has got past the requirement and media checks.
SpawnPcs == {"build_cmd", "fork_qemu", "store_qemu", "sleep_qemu", "display",
             "fork_websockify", "store_websockify", "sleep_websockify", "idle"}

\* ------------------------------------------------------------------- C1
\* C1: in every teardown where both children were started (both pids are
\* recorded), the display proxy is sent SIGTERM and waited for before the
\* hypervisor is sent SIGTERM.  Stated at the moment cleanup() has just
\* signalled QEMU: websockify has then already been signalled and waited for.
C1_ProxyTornDownFirst ==
    (pc = "cleanup_wait_qemu" /\ qemuPid # NoPid /\ websockifyPid # NoPid)
        => \E j \in Events("kill", "websockify") :
              \E k \in Events("wait", "websockify") : j < k

\* ------------------------------------------------------------------- C2
\* C2: across any sequence of signal deliveries and teardowns, each child is
\* sent the termination signal at most once, and never after it has stopped
\* (no kill() is answered "no such process").
C2_TeardownAtMostOnce ==
    \A r \in Roles :
       /\ Cardinality(Events("kill", r)) <= 1
       /\ \A i \in Events("kill", r) : sys[i].ok

\* ------------------------------------------------------------------- C3
\* boot() is reporting failure after the QEMU child had been forked: the only
\* way there is the failed start of websockify.
ProxyFailureReported ==
    /\ Forked("qemu")
    /\ \/ pc = "boot_failed"
       \/ ExitedBy("main")

\* C3: when the proxy spawn fails after the hypervisor was started, then by the
\* time boot() reports failure the hypervisor has been signalled once, waited
\* for successfully once (signal before wait) and is stopped, and the proxy
\* never ran and has no pid.
C3_HypervisorTornDownOnProxyFailure ==
    ProxyFailureReported =>
       /\ child["qemu"] = "Reaped"
       /\ Cardinality(Events("kill", "qemu")) = 1
       /\ Cardinality({i \in Events("wait", "qemu") : sys[i].ok}) = 1
       /\ \A i \in Events("kill", "qemu") : \A j \in Events("wait", "qemu") : i < j
       /\ child["websockify"] = "NotStarted"
       /\ websockifyPid = NoPid
       /\ Events("kill", "websockify") = {}

C3_Witness ==
    /\ pc = "boot_failed"
    /\ Forked("qemu")
    /\ \E i \in Events("fork", "websockify") : ~sys[i].ok

\* ------------------------------------------------------------------- C4
\* C4: whenever the handler has run to its exit, every child that fork() had
\* created by then was signalled and waited for, and none is still running.
C4_HandlerTearsDownEveryStartedChild ==
    ExitedBy("handler") =>
       \A r \in Roles :
          Forked(r) => /\ Events("kill", r) # {}
                       /\ Events("wait", r) # {}
                       /\ child[r] = "Reaped"

\* ------------------------------------------------------------------- C5
\* A required tool is missing: QEMU, or websockify while VNC is requested.
RequiredToolMissing == ~host.qemu \/ (useVNC /\ ~host.websockify)

\* C5: with a required tool missing, boot() never gets as far as spawning: no
\* fork, kill or waitpid is ever made, no child exists, both pids stay "not
\* running", main never reaches its idle loop, and when main returns it
\* returns 1.
C5_MissingToolFailsBeforeSpawn ==
    RequiredToolMissing =>
       /\ \A i \in DOMAIN sys : sys[i].op \notin {"fork", "kill", "wait", "sleep"}
       /\ \A r \in Roles : child[r] = "NotStarted"
       /\ qemuPid = NoPid /\ websockifyPid = NoPid
       /\ pc \notin SpawnPcs
       /\ ExitedBy("main") => exitCode = 1

C5_Witness ==
    /\ RequiredToolMissing
    /\ ExitedBy("main")
    /\ exitCode = 1
    /\ Len(sys) = 1

\* ------------------------------------------------------------------- C6
\* C6: a hypervisor spawn is attempted only with a disk or an ISO in hand; with
\* both lists empty after the default-disk attempt and the re-scan, boot() is
\* past no check that leads to a spawn, no fork is made, and boot() reports
\* failure.
C6_NoLaunchWithoutMedia ==
    /\ (ForkTried("qemu") \/ (ctx = "main" /\ pc \in SpawnPcs)) => ~NoMedia
    /\ NoMedia =>
          /\ \A r \in Roles : ~ForkTried(r) /\ child[r] = "NotStarted"
          /\ cmd = << >>
          /\ ExitedBy("main") => exitCode = 1

C6_Witness ==
    /\ pc = "boot_failed"
    /\ NoMedia
    /\ ~RequiredToolMissing
    /\ \A i \in DOMAIN sys : sys[i].op = "create" /\ ~sys[i].ok

\* ------------------------------------------------------------------- C7
\* Where main is while boot() is failing: running the cleanup() of the failed
\* proxy start, or about to return false.
FailedPcs == {"boot_failed", "cleanup_qemu", "cleanup_wait_qemu", "cleanup_websockify",
              "cleanup_wait_websockify", "cleanup_done"}

\* The execution went down a Failed path: main returned after boot() failed,
\* or a signal found main on its way there.
FailedPath ==
    \/ ExitedBy("main")
    \/ \E i \in Events("signal", "parent") : sys[i].ctx = "main" /\ sys[i].at \in FailedPcs

\* C7 (its second half): every execution that ends via a Failed path exits
\* with a non-zero status, whatever signals are received along the way.
C7_FailedPathExitsNonZero ==
    (~alive /\ FailedPath) => exitCode # 0

\* ------------------------------------------------------------------- C8
\* C8: a fork of websockify is made only with VNC on and after a successful
\* fork of QEMU followed by its grace sleep; with VNC off no system call ever
\* concerns websockify, its pid stays "not running", and no websockify process
\* exists.
C8_ProxyOnlyInRemoteModeAfterHypervisor ==
    /\ \A i \in Events("fork", "websockify") :
          /\ useVNC
          /\ \E j \in Events("fork", "qemu") :
                /\ sys[j].ok
                /\ \E k \in Events("sleep", "qemu") : j < k /\ k < i
    /\ ~useVNC =>
          /\ websockifyPid = NoPid
          /\ child["websockify"] = "NotStarted"
          /\ \A i \in DOMAIN sys : sys[i].who # "websockify"

\* A teardown in Local mode: the handler signalled QEMU and has exited.
C8_Witness ==
    /\ ~useVNC
    /\ ExitedBy("handler")
    /\ Events("kill", "qemu") # {}
    /\ Events("sleep", "qemu") # {}

\* ------------------------------------------------------------------- C9
\* Argument i of a built command starts with the piece `first`.
StartsWith(c, first) == \E i \in DOMAIN c : c[i][1] = first

HasArg(c, arg) == \E i \in DOMAIN c : c[i] = arg

\* C9: no missing optional resource makes boot() fail before the hypervisor
\* spawn: a failure with no fork attempted has a missing required tool or no
\* bootable media as its cause.  The command that is built leaves the firmware
\* drives out when the firmware is missing, uses the user-mode backend and not
\* the bridge when the bridge interface is missing, leaves the camera device
\* out when no camera is found; websockify is never forked when the noVNC
\* directory is missing.
C9_OptionalResourcesDegrade ==
    /\ (ctx = "main" /\ pc = "boot_failed" /\ ~ForkTried("qemu"))
          => (RequiredToolMissing \/ NoMedia)
    /\ cmd # << >> =>
          /\ ~host.firmware => /\ ~StartsWith(cmd, "if=pflash,format=raw,readonly=on,file=")
                               /\ ~StartsWith(cmd, "if=pflash,format=raw,file=")
          /\ ~host.bridge => /\ HasArg(cmd, <<"user,id=net0">>)
                             /\ ~StartsWith(cmd, "bridge,id=net0,br=")
          /\ ~host.camera => ~StartsWith(cmd, "usb-host,vendorid=0x")
    /\ ~host.noVNC => ~ForkTried("websockify")

\* Every optional resource is missing, all were asked for, and QEMU is forked.
C9_Witness ==
    /\ ~host.firmware /\ ~host.noVNC /\ ~host.bridge /\ ~host.camera
    /\ useVNC /\ enableCamera
    /\ Forked("qemu")
    /\ HasArg(cmd, <<"user,id=net0">>)
    /\ ctx = "main" /\ pc = "cleanup_qemu"

\* ------------------------------------------------------------------ C10
\* What QEMU boots from for a drive letter of -boot order=: c is the first hard
\* disk, d the first CD-ROM.
BootDevice(letter) ==
    CASE letter = "a" -> "floppy"
      [] letter = "c" -> "disk"
      [] letter = "d" -> "cdrom"
      [] letter = "n" -> "network"

\* The devices of the -boot argument of a command, in priority order.
BootOrder(c) ==
    LET i == CHOOSE j \in DOMAIN c : c[j] = <<"-boot">>
        value == c[i + 1]
    IN  [k \in 1..(Len(value) - 2) |-> BootDevice(value[k + 1])]

\* C10 as stated: with an ISO present the order is disk first, then optical;
\* with none it is disk only.
C10_DiskThenCdrom ==
    cmd # << >> =>
       BootOrder(cmd) = IF isoFiles # << >> THEN <<"disk", "cdrom">> ELSE <<"disk">>

\* C10 amended: with an ISO present the order is optical first, then disk
\* (order=dc); with none it is disk only (order=c).
C10_CdromThenDisk ==
    cmd # << >> =>
       BootOrder(cmd) = IF isoFiles # << >> THEN <<"cdrom", "disk">> ELSE <<"disk">>

\* The default disk was created in an empty disk directory, one ISO is
\* present, and the command has been built.
C10_Witness ==
    /\ cmd # << >>
    /\ diskFiles = << <<diskDir>> \o DefaultDiskName >>
    /\ Len(isoFiles) = 1
    /\ BootOrder(cmd)[1] = "cdrom"

\* ------------------------------------------------------------------ C11
\* The format the ending of a path stands for: .vdi is vdi, .img and .raw are
\* raw, .vmdk is vmdk, anything else (.qcow2 included) is qcow2.
FormatByEnding(path) ==
    CASE path[Len(path)] = ".vdi" -> "vdi"
      [] path[Len(path)] \in {".img", ".raw"} -> "raw"
      [] path[Len(path)] = ".vmdk" -> "vmdk"
      [] OTHER -> "qcow2"

\* C11: the drive entry of every disk path carries the format of the path's
\* ending, whatever extension-like pieces come earlier in the path.
C11_FormatFollowsEnding ==
    cmd # << >> =>
       \A i \in DOMAIN diskFiles :
          HasArg(cmd, <<"file=">> \o diskFiles[i]
                         \o <<",format=", FormatByEnding(diskFiles[i]),
                              ",if=virtio,cache=writeback">>)

\* ------------------------------------------------------------------ C12
\* A disk with a recognized extension is in the disk directory.
DiskPresent == \E n \in diskDirFiles : extension(n) \in DiskExtensions

ActiveSignalled ==
    \E i \in Events("signal", "parent") : sys[i].ctx = "main" /\ sys[i].at = "idle"

\* The parent has exited and every child it forked has been waited for.
Terminated ==
    /\ ~alive
    /\ \A r \in Roles : Forked(r) => child[r] = "Reaped"

\* C13: once a signal is received in the Active state, the parent eventually
\* exits with every child waited for (each child exiting once it is sent
\* SIGTERM, and the parent running on).
C13_ActiveSignalLeadsToTerminated == ActiveSignalled ~> Terminated

\* The handler entered from the idle loop is blocked in waitpid on a QEMU that
\* was running when it was signalled.
C13_Witness ==
    /\ ActiveSignalled
    /\ pc = "cleanup_wait_qemu"
    /\ child["qemu"] = "Stopping"

\* ------------------------------------------------------------------ C14
\* C14: once cleanup() has returned, a child that was waited for is no longer
\* designated by its pid field: the field is back to "not running".
C14_ReapedPidCleared ==
    pc \in {"cleanup_done", "boot_failed", "returned"} =>
       /\ child["qemu"] = "Reaped" => qemuPid = NoPid
       /\ child["websockify"] = "Reaped" => websockifyPid = NoPid

\* ------------------------------------------------------------------ C15
\* C15: fork() is called at most once for the hypervisor and at most once for
\* the display proxy, whatever children exit and whatever signals arrive.
C15_NoChildRestarted ==
    \A r \in Roles : Cardinality(Events("fork", r)) <= 1

\* Both children were forked, QEMU has exited on its own, and the parent idles.
C15_Witness ==
    /\ alive /\ ctx = "main" /\ pc = "idle"
    /\ Forked("qemu") /\ Forked("websockify")
    /\ child["qemu"] = "Exited"

\* ------------------------------------------------------------------ C16
\* main is in its idle loop and no signal has been delivered.
Active == alive /\ ctx = "main" /\ pc = "idle"

\* C16: from the idle loop the parent's only step other than sleeping on is
\* the delivery of a signal: whatever the children do, it makes no system
\* call, changes no pid, starts no teardown and does not exit.
C16_ChildDeathNotDetected ==
    [][Active =>
          \/ /\ pc' = "idle" /\ alive' /\ handlers' = 0
             /\ sys' = sys
             /\ UNCHANGED pids
          \/ /\ handlers' = 1
             /\ sys' = Append(sys, Event("signal", "parent", TRUE))]_vars

\* The parent idles although both children have exited (QEMU as it would
\* after a failed exec), and no teardown has been made.
C16_Witness ==
    /\ Active
    /\ child["qemu"] = "Exited" /\ child["websockify"] = "Exited"
    /\ \A i \in DOMAIN sys : sys[i].op \notin {"kill", "wait", "signal"}

\* ------------------------------------------------------------------ C17
\* C17 as stated: once main has left its argument loop and called boot(), no
\* step changes any configuration field.
C17_ConfigImmutableInBoot ==
    [][pc # "parse_args" => config' = config]_vars

\* C17 amended: once boot() has begun, the only change to the configuration is
\* the bridge check switching the network mode from bridge to user networking
\* when the bridge interface is absent; the display mode and the camera and
\* microphone flags never change, and nothing changes after the bridge check,
\* command building included.
C17_ConfigFixedButBridgeFallback ==
    [][pc # "parse_args" =>
          /\ useVNC' = useVNC
          /\ enableCamera' = enableCamera
          /\ enableMicrophone' = enableMicrophone
          /\ useBridge' # useBridge =>
                /\ ctx = "main" /\ pc = "check_bridge"
                /\ ~host.bridge
                /\ useBridge /\ ~useBridge']_vars

\* No option was given, the bridge is absent and boot() ran to the idle loop:
\* the network mode fell back and the command was built with it.
C17_Witness ==
    /\ argi = 0 /\ ~host.bridge
    /\ pc = "idle"
    /\ ~useBridge /\ useVNC /\ enableCamera /\ enableMicrophone
    /\ HasArg(cmd, <<"user,id=net0">>)

\* ------------------------------------------------------------------ C18
\* C18: every kill() and waitpid() addresses one of the two children, after a
\* fork() that returned that child; none addresses pid -1.  A recorded pid is
\* either -1 or the pid a successful fork() of that child returned.
C18_TeardownOnlyOnForkedPids ==
    /\ \A i \in DOMAIN sys :
          sys[i].op \in {"kill", "wait"} =>
             /\ sys[i].who \in Roles
             /\ \E j \in Events("fork", sys[i].who) : j < i /\ sys[j].ok
    /\ qemuPid # NoPid => qemuPid = ChildPid("qemu") /\ Forked("qemu")
    /\ websockifyPid # NoPid =>
          websockifyPid = ChildPid("websockify") /\ Forked("websockify")

\* The fork of websockify failed and cleanup() has run: QEMU was signalled and
\* waited for, and websockify, whose pid is still -1, was passed over.
C18_Witness ==
    /\ pc = "cleanup_done"
    /\ \E i \in Events("fork", "websockify") : ~sys[i].ok
    /\ websockifyPid = NoPid
    /\ Events("kill", "qemu") # {} /\ Events("wait", "qemu") # {}
    /\ Events("kill", "websockify") = {}

\* ------------------------------------------------------------------ C19
\* A signal has been delivered and no fork() has returned a child.
SignalledBeforeSpawn ==
    /\ handlers > 0
    /\ \A r \in Roles : ~Forked(r)

\* C19: a signal delivered before any child was spawned leads to no kill()
\* and no waitpid(), leaves no child behind, and the process ends only in the
\* handler's exit, with status 0.
C19_EarlySignalExitsQuietly ==
    SignalledBeforeSpawn =>
       /\ \A i \in DOMAIN sys : sys[i].op \notin {"kill", "wait"}
       /\ \A r \in Roles : child[r] = "NotStarted"
       /\ ~alive => ExitedBy("handler") /\ exitCode = 0

\* The signal arrived during the media scan; the handler has exited and the
\* signal and the exit are all that happened.
C19_Witness ==
    /\ ExitedBy("handler") /\ exitCode = 0
    /\ Len(sys) = 2
    /\ sys[1].op = "signal" /\ sys[1].at = "scan"

====
